---- MODULE Spec2Model ----
(***************************************************************************)
(* Task-store service of bellglen.py: one in-memory list of task records   *)
(* (tasks_data), four v1 handlers, and four v2 handlers that run the same  *)
(* logic behind the validate_api_key dependency.                           *)
(*                                                                         *)
(* Python values are encoded as follows.                                   *)
(*   None            the empty tuple <<>>                                  *)
(*   an Optional x   <<>> for None, <<v>> for the value v                  *)
(*   a dict / model  a record                                              *)
(*   a list          a sequence                                            *)
(*   a reference to an element of tasks_data: its index in the list (0 for *)
(*   None), the dicts of the list being distinct objects                   *)
(* A response is [status_code, body]; a raised HTTPException is the        *)
(* response FastAPI makes of it, body [detail |-> ...].                    *)
(***************************************************************************)
EXTENDS Integers, Sequences, FiniteSets

VARIABLES
    tasks_data,   \* the module-level list of task dicts
    API_KEY,      \* os.getenv("LAB4_API_KEY"), read once at import
    pc,           \* sequential service: "idle", or "done" once a handler ran
    req,          \* the request being answered (pc = "done")
    resp,         \* its response (pc = "done")
    prev,         \* tasks_data as the request found it (pc = "done")
    wpc,          \* concurrent service: each worker thread's position
    w_new_task,   \* ... its parsed NewTask body
    w_new_id      \* ... its local new_id

vars == <<tasks_data, API_KEY, pc, req, resp, prev, wpc, w_new_task, w_new_id>>

seq_vars == <<pc, req, resp, prev>>

conc_vars == <<wpc, w_new_task, w_new_id>>

\* Largest store the sequential service is driven to.
MaxTasks == 2

\* Number of worker threads of the concurrent service.
NumWorkers == 2

None == <<>>

Some(v) == <<v>>

\* ---------------------------------------------------------------- data

InitialTasks ==
    << [Id |-> 1, Title |-> "Complete Lab Activity",
        Description |-> Some("Finish Lab Activity 2"), done |-> FALSE] >>

\* Values os.getenv may give: unset, or a secret.
Secrets == {None, Some("secret")}

\* Values the APIKeyHeader dependency hands over: None when the header is
\* missing (auto_error=False), else the header's value.
Headers == {None, Some("secret"), Some("wrong")}

TaskIds == (0 - 1) .. (MaxTasks + 1)

\* Request bodies before validation. done is False when omitted.
NewTaskBodies ==
    [Title : {"", "Write spec"}, Description : {None, Some("d")}, done : BOOLEAN]

UpdateTaskBodies ==
    [Title : {None, Some(""), Some("Write spec")},
     Description : {None, Some("d")},
     done : {None, Some(TRUE), Some(FALSE)}]

\* NewTask: Title is a str of min_length 1.
NewTask(body) == Len(body.Title) >= 1

\* UpdateTask: Title is None or a str of min_length 1.
UpdateTask(body) == body.Title = None \/ Len(body.Title[1]) >= 1

\* ------------------------------------------------------------ responses

HTTPException(status_code, detail) ==
    [status_code |-> status_code, body |-> [detail |-> detail]]

\* FastAPI's answer to a body its model rejects.
RequestValidationError ==
    [status_code |-> 422, body |-> [detail |-> <<"validation error">>]]

InvalidId == HTTPException(400, <<"Task ID must be a positive integer">>)

NotFound(task_id) == HTTPException(404, <<"Task with ID", task_id, "not found">>)

Unauthorized == HTTPException(401, <<"Unauthorized">>)

\* ------------------------------------------------------------- helpers

\* next((task for task in tasks if task["Id"] == task_id), None): the first
\* match, as its index; 0 is None.
get_task_by_id(tasks, task_id) ==
    LET hits == {i \in 1..Len(tasks) : tasks[i].Id = task_id}
    IN  IF hits = {} THEN 0 ELSE CHOOSE i \in hits : \A j \in hits : i <= j

\* list.remove(x): drops the first element equal (==) to x.
ListRemove(tasks, x) ==
    LET k == CHOOSE i \in 1..Len(tasks) :
                 tasks[i] = x /\ \A j \in 1..(i - 1) : tasks[j] # x
    IN  [i \in 1..(Len(tasks) - 1) |-> IF i < k THEN tasks[i] ELSE tasks[i + 1]]

\* Variant: the gate asks only that a header be there.
validate_api_key_present(api_key) == api_key # None

\* validate_api_key: TRUE when it returns, FALSE when it raises 401.
validate_api_key(api_key) == ~(api_key # API_KEY)

\* ------------------------------------------------------------ handlers
\* Each handler gives the list it leaves and the response it makes.

read_task_v1(tasks, task_id) ==
    LET task == get_task_by_id(tasks, task_id)
    IN  IF task_id <= 0 THEN [tasks |-> tasks, resp |-> InvalidId]
        ELSE IF task = 0 THEN [tasks |-> tasks, resp |-> NotFound(task_id)]
        ELSE [tasks |-> tasks,
              resp |-> [status_code |-> 200,
                        body |-> [Status |-> "Success", Task |-> tasks[task]]]]

\* Variant: the Id after the largest Id in the list.
NewId_max(tasks) ==
    IF tasks = <<>> THEN 1
    ELSE 1 + (CHOOSE m \in {tasks[i].Id : i \in 1..Len(tasks)} :
                  \A i \in 1..Len(tasks) : tasks[i].Id <= m)

NewId(tasks) == Len(tasks) + 1

TaskToAdd(new_id, new_task) ==
    [Id |-> new_id, Title |-> new_task.Title,
     Description |-> new_task.Description, done |-> new_task.done]

\* Variant: the Id is taken from the list as the record is appended.
AppendTask_fresh(tasks, new_id, new_task) ==
    Append(tasks, [Id |-> Len(tasks) + 1, Title |-> new_task.Title,
                   Description |-> new_task.Description, done |-> new_task.done])

AppendTask(tasks, new_id, new_task) == Append(tasks, TaskToAdd(new_id, new_task))

add_task_v1(tasks, new_task) ==
    LET new_id == NewId(tasks)
    IN  [tasks |-> AppendTask(tasks, new_id, new_task),
         resp |-> [status_code |-> 201,
                   body |-> [Status |-> "Success",
                             Task_Added |-> TaskToAdd(new_id, new_task)]]]

\* Variant: "if updated_task.X:" for "if updated_task.X is not None:".
modify_task_v1_truthy(tasks, task_id, updated_task) ==
    LET task == get_task_by_id(tasks, task_id)
        t0 == tasks[task]
        t1 == IF updated_task.Title # None /\ updated_task.Title # Some("")
              THEN [t0 EXCEPT !.Title = updated_task.Title[1]] ELSE t0
        t2 == IF updated_task.Description # None /\ updated_task.Description # Some("")
              THEN [t1 EXCEPT !.Description = updated_task.Description] ELSE t1
        t3 == IF updated_task.done # None /\ updated_task.done # Some(FALSE)
              THEN [t2 EXCEPT !.done = updated_task.done[1]] ELSE t2
    IN  IF task_id <= 0 THEN [tasks |-> tasks, resp |-> InvalidId]
        ELSE IF task = 0 THEN [tasks |-> tasks, resp |-> NotFound(task_id)]
        ELSE [tasks |-> [tasks EXCEPT ![task] = t3],
              resp |-> [status_code |-> 200,
                        body |-> [Status |-> "Success",
                                  Message |-> <<"Task Updated Successfully">>]]]

modify_task_v1(tasks, task_id, updated_task) ==
    LET task == get_task_by_id(tasks, task_id)
        t0 == tasks[task]
        t1 == IF updated_task.Title # None
              THEN [t0 EXCEPT !.Title = updated_task.Title[1]] ELSE t0
        t2 == IF updated_task.Description # None
              THEN [t1 EXCEPT !.Description = updated_task.Description] ELSE t1
        t3 == IF updated_task.done # None
              THEN [t2 EXCEPT !.done = updated_task.done[1]] ELSE t2
    IN  IF task_id <= 0 THEN [tasks |-> tasks, resp |-> InvalidId]
        ELSE IF task = 0 THEN [tasks |-> tasks, resp |-> NotFound(task_id)]
        ELSE [tasks |-> [tasks EXCEPT ![task] = t3],
              resp |-> [status_code |-> 200,
                        body |-> [Status |-> "Success",
                                  Message |-> <<"Task Updated Successfully">>]]]

\* Variant: "if task_id < 0:" for "if task_id <= 0:".
remove_task_v1_negative(tasks, task_id) ==
    LET task == get_task_by_id(tasks, task_id)
    IN  IF task_id < 0 THEN [tasks |-> tasks, resp |-> InvalidId]
        ELSE IF task = 0 THEN [tasks |-> tasks, resp |-> NotFound(task_id)]
        ELSE [tasks |-> ListRemove(tasks, tasks[task]),
              resp |-> [status_code |-> 200,
                        body |-> [Status |-> "Success",
                                  Message |-> <<"Task with ID", task_id, "deleted">>]]]

remove_task_v1(tasks, task_id) ==
    LET task == get_task_by_id(tasks, task_id)
    IN  IF task_id <= 0 THEN [tasks |-> tasks, resp |-> InvalidId]
        ELSE IF task = 0 THEN [tasks |-> tasks, resp |-> NotFound(task_id)]
        ELSE [tasks |-> ListRemove(tasks, tasks[task]),
              resp |-> [status_code |-> 200,
                        body |-> [Status |-> "Success",
                                  Message |-> <<"Task with ID", task_id, "deleted">>]]]

\* --------------------------------------------------------------- routes
\* A route is the handler behind what FastAPI does first: the route's
\* dependencies (v2: validate_api_key), then the validation of the body.

\* The v1 route of request r on the list tasks.
RouteV1(tasks, r) ==
    CASE r.method = "GET" -> read_task_v1(tasks, r.task_id)
      [] r.method = "POST" ->
            IF NewTask(r.body) THEN add_task_v1(tasks, r.body)
            ELSE [tasks |-> tasks, resp |-> RequestValidationError]
      [] r.method = "PATCH" ->
            IF UpdateTask(r.body) THEN modify_task_v1(tasks, r.task_id, r.body)
            ELSE [tasks |-> tasks, resp |-> RequestValidationError]
      [] r.method = "DELETE" -> remove_task_v1(tasks, r.task_id)

\* The v2 route: Depends(validate_api_key), then the v1 handler.
RouteV2(tasks, r) ==
    IF validate_api_key(r.api_key) THEN RouteV1(tasks, r)
    ELSE [tasks |-> tasks, resp |-> Unauthorized]

Route(tasks, r) == IF r.version = 2 THEN RouteV2(tasks, r) ELSE RouteV1(tasks, r)

\* ------------------------------------------------------------- requests

NoRequest == [method |-> "NONE", version |-> 0, api_key |-> None]

NoResponse == [status_code |-> 0, body |-> None]

IdRequests(method, version, keys) ==
    {[method |-> method, version |-> version, api_key |-> k, task_id |-> id] :
        k \in keys, id \in TaskIds}

PostRequests(version, keys) ==
    {[method |-> "POST", version |-> version, api_key |-> k, body |-> b] :
        k \in keys, b \in NewTaskBodies}

PatchRequests(version, keys) ==
    {[method |-> "PATCH", version |-> version, api_key |-> k,
      task_id |-> id, body |-> b] :
        k \in keys, id \in TaskIds, b \in UpdateTaskBodies}

\* ---------------------------------------------------- sequential service

Init ==
    /\ tasks_data = InitialTasks
    /\ API_KEY \in Secrets
    /\ pc = "idle"
    /\ req = NoRequest
    /\ resp = NoResponse
    /\ prev = InitialTasks
    /\ wpc = [w \in 1..NumWorkers |-> "idle"]
    /\ w_new_task = [w \in 1..NumWorkers |-> None]
    /\ w_new_id = [w \in 1..NumWorkers |-> 0]

\* One request, answered from start to end: the route runs on the list as
\* it is and leaves the list and the response.
Serve(r) ==
    /\ pc' = "done"
    /\ req' = r
    /\ prev' = tasks_data
    /\ tasks_data' = Route(tasks_data, r).tasks
    /\ resp' = Route(tasks_data, r).resp
    /\ UNCHANGED <<API_KEY, conc_vars>>

ReadTaskV1 ==
    /\ pc = "idle"
    /\ \E r \in IdRequests("GET", 1, {None}) : Serve(r)

AddTaskV1 ==
    /\ pc = "idle"
    /\ Len(tasks_data) < MaxTasks
    /\ \E r \in PostRequests(1, {None}) : Serve(r)

ModifyTaskV1 ==
    /\ pc = "idle"
    /\ \E r \in PatchRequests(1, {None}) : Serve(r)

RemoveTaskV1 ==
    /\ pc = "idle"
    /\ \E r \in IdRequests("DELETE", 1, {None}) : Serve(r)

ReadTaskV2 ==
    /\ pc = "idle"
    /\ \E r \in IdRequests("GET", 2, Headers) : Serve(r)

AddTaskV2 ==
    /\ pc = "idle"
    /\ Len(tasks_data) < MaxTasks
    /\ \E r \in PostRequests(2, Headers) : Serve(r)

ModifyTaskV2 ==
    /\ pc = "idle"
    /\ \E r \in PatchRequests(2, Headers) : Serve(r)

RemoveTaskV2 ==
    /\ pc = "idle"
    /\ \E r \in IdRequests("DELETE", 2, Headers) : Serve(r)

\* The response is sent; the request's objects are gone.
Respond ==
    /\ pc = "done"
    /\ pc' = "idle"
    /\ req' = NoRequest
    /\ resp' = NoResponse
    /\ prev' = tasks_data
    /\ UNCHANGED <<tasks_data, API_KEY, conc_vars>>

Next ==
    \/ ReadTaskV1
    \/ AddTaskV1
    \/ ModifyTaskV1
    \/ RemoveTaskV1
    \/ ReadTaskV2
    \/ AddTaskV2
    \/ ModifyTaskV2
    \/ RemoveTaskV2
    \/ Respond

Spec == Init /\ [][Next]_vars

\* ---------------------------------------------------- concurrent service
\* POST /v1/tasks on worker threads of the server's thread pool (add_task_v1
\* is a plain def). Each worker answers one request; its statements run one
\* at a time, interleaved with the other workers', with no lock around
\* tasks_data.

Workers == 1..NumWorkers

\* The request arrives with a valid body; the handler is entered.
ConcAccept(w) ==
    /\ wpc[w] = "idle"
    /\ \E b \in {x \in NewTaskBodies : NewTask(x)} :
          w_new_task' = [w_new_task EXCEPT ![w] = b]
    /\ wpc' = [wpc EXCEPT ![w] = "new_id"]
    /\ UNCHANGED <<tasks_data, API_KEY, seq_vars, w_new_id>>

\* new_id = len(tasks_data) + 1
ConcNewId(w) ==
    /\ wpc[w] = "new_id"
    /\ w_new_id' = [w_new_id EXCEPT ![w] = NewId(tasks_data)]
    /\ wpc' = [wpc EXCEPT ![w] = "append"]
    /\ UNCHANGED <<tasks_data, API_KEY, seq_vars, w_new_task>>

\* tasks_data.append(task_to_add)
ConcAppend(w) ==
    /\ wpc[w] = "append"
    /\ tasks_data' = AppendTask(tasks_data, w_new_id[w], w_new_task[w])
    /\ wpc' = [wpc EXCEPT ![w] = "return"]
    /\ UNCHANGED <<API_KEY, seq_vars, w_new_task, w_new_id>>

\* return {"Status": "Success", "Task Added": task_to_add}
ConcReturn(w) ==
    /\ wpc[w] = "return"
    /\ wpc' = [wpc EXCEPT ![w] = "returned"]
    /\ UNCHANGED <<tasks_data, API_KEY, seq_vars, w_new_task, w_new_id>>

ConcNext ==
    \E w \in Workers :
        \/ ConcAccept(w)
        \/ ConcNewId(w)
        \/ ConcAppend(w)
        \/ ConcReturn(w)

SpecConc == Init /\ [][ConcNext]_vars

\* ------------------------------------------------------------ properties

Served(methods) == pc = "done" /\ req.method \in methods

\* The request got past the gate and the body's model, into the handler.
HandlerEntered ==
    /\ req.version = 1 \/ req.api_key = API_KEY
    /\ req.method = "POST" => NewTask(req.body)
    /\ req.method = "PATCH" => UpdateTask(req.body)

HasId(tasks, id) == \E i \in 1..Len(tasks) : tasks[i].Id = id

\* C1: no two records of the store have the same Id.
UniqueIds ==
    \A i, j \in 1..Len(tasks_data) :
        i # j => tasks_data[i].Id # tasks_data[j].Id

\* C2: a GetTask of the Id a CreateTask just returned gives a record with
\* exactly the Title, Description and done that the CreateTask was given.
CreateThenGet ==
    (Served({"POST"}) /\ resp.status_code = 201) =>
        LET got == read_task_v1(tasks_data, resp.body.Task_Added.Id).resp
        IN  /\ got.status_code = 200
            /\ got.body.Task.Title = req.body.Title
            /\ got.body.Task.Description = req.body.Description
            /\ got.body.Task.done = req.body.done

\* C3: a GetTask of the id a DeleteTask just removed gives 404.
DeleteThenGet ==
    (Served({"DELETE"}) /\ resp.status_code = 200) =>
        read_task_v1(tasks_data, req.task_id).resp.status_code = 404

\* C4: a CreateTask that gets into the handler succeeds; it leaves the store
\* it found with one record more, at the end, which is the record it
\* returns, and whose Id is the new size of the store.
CreateAppends ==
    (Served({"POST"}) /\ HandlerEntered) =>
        /\ resp.status_code = 201
        /\ Len(tasks_data) = Len(prev) + 1
        /\ SubSeq(tasks_data, 1, Len(prev)) = prev
        /\ tasks_data[Len(tasks_data)] = resp.body.Task_Added
        /\ resp.body.Task_Added.Id = Len(tasks_data)

CreateAppendsSeen ==
    /\ Served({"POST"})
    /\ resp.status_code = 201
    /\ Len(prev) = 1
    /\ prev[1].Id = 2

\* C5: with no secret configured, every v2 request gets 401 and leaves the
\* store as it was.
FailClosed ==
    (pc = "done" /\ req.version = 2 /\ API_KEY = None) =>
        resp.status_code = 401 /\ tasks_data = prev

\* C6: with a secret configured, a v2 request whose header is missing or is
\* not the secret gets 401 and leaves the store as it was; one whose header
\* is the secret gets the response and makes the change of the same request
\* on v1.
GateThenV1 ==
    (pc = "done" /\ req.version = 2 /\ API_KEY # None) =>
        IF req.api_key = API_KEY
        THEN LET v1 == Route(prev, [req EXCEPT !.version = 1, !.api_key = None])
             IN  tasks_data = v1.tasks /\ resp = v1.resp
        ELSE resp.status_code = 401 /\ tasks_data = prev

GateThenV1Seen ==
    /\ Served({"DELETE"})
    /\ req.version = 2
    /\ API_KEY # None
    /\ req.api_key = API_KEY
    /\ resp.status_code = 200
    /\ Len(tasks_data) < Len(prev)

\* C7: an UpdateTask of an existing id succeeds and changes, in the first
\* record of that Id, the fields the request supplies and no other; the
\* record's Id, the other records, the size and the order of the store stay.
PartialUpdate ==
    (Served({"PATCH"}) /\ HandlerEntered /\ HasId(prev, req.task_id)) =>
        LET i == CHOOSE k \in 1..Len(prev) :
                     /\ prev[k].Id = req.task_id
                     /\ \A j \in 1..(k - 1) : prev[j].Id # req.task_id
            b == req.body
        IN  /\ resp.status_code = 200
            /\ Len(tasks_data) = Len(prev)
            /\ \A j \in 1..Len(prev) : j # i => tasks_data[j] = prev[j]
            /\ tasks_data[i].Id = prev[i].Id
            /\ tasks_data[i].Title =
                   IF b.Title = None THEN prev[i].Title ELSE b.Title[1]
            /\ tasks_data[i].Description =
                   IF b.Description = None THEN prev[i].Description
                   ELSE b.Description
            /\ tasks_data[i].done =
                   IF b.done = None THEN prev[i].done ELSE b.done[1]
            /\ (b.Title = None /\ b.Description = None /\ b.done = None)
                   => tasks_data = prev

\* done=false, and nothing else, supplied for a task that was done.
PartialUpdateSeen ==
    /\ Served({"PATCH"})
    /\ resp.status_code = 200
    /\ req.body = [Title |-> None, Description |-> None, done |-> Some(FALSE)]
    /\ \E i \in 1..Len(prev) :
          /\ prev[i].Id = req.task_id
          /\ prev[i].done
          /\ ~tasks_data[i].done

\* C8: a GetTask, UpdateTask or DeleteTask issued a second time leaves the
\* store as the first one left it.
RepeatIsIdempotent ==
    Served({"GET", "PATCH", "DELETE"}) => Route(tasks_data, req).tasks = tasks_data

\* C9: a GetTask, UpdateTask or DeleteTask that gets into the handler with
\* id <= 0 gets 400; with id > 0 and no record of that Id it gets 404; in
\* both cases the store stays as it was.
IdErrors ==
    (Served({"GET", "PATCH", "DELETE"}) /\ HandlerEntered) =>
        /\ req.task_id <= 0 =>
              resp.status_code = 400 /\ tasks_data = prev
        /\ (req.task_id > 0 /\ ~HasId(prev, req.task_id)) =>
              resp.status_code = 404 /\ tasks_data = prev

IdErrorsSeen ==
    /\ Served({"DELETE"})
    /\ HandlerEntered
    /\ req.task_id = 0
    /\ Len(prev) = 2
    /\ resp.status_code = 400

Appended(w) == wpc[w] \in {"return", "returned"}

\* C10: a create appends the Id it read, however the store has grown since:
\* while no create has appended, all creates that have read the size hold
\* the same new_id, and two creates that have appended the same new_id have
\* left two records of that Id in the store.
RacingCreatesShareId ==
    /\ \A w \in Workers :
          (wpc[w] = "append" /\ Len(tasks_data) = Len(InitialTasks)) =>
              w_new_id[w] = Len(InitialTasks) + 1
    /\ \A p, q \in Workers :
          (p # q /\ Appended(p) /\ Appended(q) /\ w_new_id[p] = w_new_id[q]) =>
              \E i, j \in 1..Len(tasks_data) :
                  /\ i # j
                  /\ tasks_data[i].Id = w_new_id[p]
                  /\ tasks_data[j].Id = w_new_id[p]

\* Two creates, no delete: two records with one Id.
RacingCreatesSeen ==
    /\ \E p, q \in Workers :
          p # q /\ Appended(p) /\ Appended(q) /\ w_new_id[p] = w_new_id[q]
    /\ \E i, j \in 1..Len(tasks_data) :
          i # j /\ tasks_data[i].Id = tasks_data[j].Id

====
